---- MODULE Spec2Model ----
(***************************************************************************)
(* Model of src/user_session.py: AdvancedRetailAnalyticsPipeline.run() as  *)
(* a state machine.  One action per step of run(); the DataFrame           *)
(* transformations are operators computed the way the Spark expressions    *)
(* compute them (row-based lag, RANGE-framed running sum, null-skipping    *)
(* aggregates).                                                            *)
(*                                                                         *)
(* Representation choices:                                                 *)
(*  - a timestamp is its epoch second (the parse format has second         *)
(*    precision, so unix_timestamp() loses nothing);                       *)
(*  - SQL NULL of a long/timestamp column is the value Null, of a string   *)
(*    column the value NullStr;                                            *)
(*  - the CSV file is a run of `pad` rows without user_id followed by the  *)
(*    explicit rows `rows`, so that the source's row limit keeps its       *)
(*    value;                                                               *)
(*  - session_id = concat(user_id, "_", session_group) is the pair         *)
(*    <<user_id, session_group>> (the rendering is injective);             *)
(*  - an average is the pair [sum, cnt] of its numerator and denominator,  *)
(*    NullAvg when no non-null term exists; dividing by 3600 multiplies    *)
(*    the denominator;                                                     *)
(*  - product_id/category/brand/price, hour_of_day and day_of_week are     *)
(*    carried by no modelled property and are left out.                    *)
(***************************************************************************)
EXTENDS Integers, Sequences, FiniteSets, TLC

VARIABLES pc, config, source_exists, source, df_cleaned, df_sessionized,
          session_features, user_summary, written

vars == <<pc, config, source_exists, source, df_cleaned, df_sessionized,
          session_features, user_summary, written>>

\* ------------------------------------------------------------------ bounds
MaxRaw == 4

\* --------------------------------------------------------------- constants
Null == -1
NullStr == "<null>"
RowLimit == 1000000
SecondsPerHour == 3600

\* Epoch second of hour h, minute m, second s of the day that is `days` days
\* after 1970-01-01 (session time zone UTC, line 32).
EpochSecond(days, h, m, s) == ((days * 24 + h) * 60 + m) * 60 + s

\* 2019-10-01 is day 18170 of the epoch.
T0 == EpochSecond(18170, 0, 0, 0)

\* ----------------------------------------------------------------- helpers
Min2(a, b) == IF a <= b THEN a ELSE b

\* Sum of the function f over the finite set S of its arguments.
RECURSIVE SumOver(_, _)
SumOver(f, S) ==
  IF S = {} THEN 0
  ELSE LET x == CHOOSE y \in S : TRUE IN f[x] + SumOver(f, S \ {x})

SetMin(S) == CHOOSE x \in S : \A y \in S : x <= y
SetMax(S) == CHOOSE x \in S : \A y \in S : x >= y

SeqsUpTo(S, n) == UNION {[1..k -> S] : k \in 0..n}

\* ------------------------------------------------------------ input values
EventTimes == {"2019-10-01 00:00:00 UTC", "2019-10-01 00:00:30 UTC",
               "2019-10-01 02:00:00 UTC", "2019-10-01T00:00:00Z"}

\* to_timestamp(event_time, "yyyy-MM-dd HH:mm:ss 'UTC'"): the instant of a
\* string in that format, NULL for any other string.
ToTimestamp(s) ==
  CASE s = "2019-10-01 00:00:00 UTC" -> EpochSecond(18170, 0, 0, 0)
    [] s = "2019-10-01 00:00:30 UTC" -> EpochSecond(18170, 0, 0, 30)
    [] s = "2019-10-01 02:00:00 UTC" -> EpochSecond(18170, 2, 0, 0)
    [] OTHER -> Null

EventTypes == {"view", "cart", "purchase", "remove_from_cart", NullStr}

\* The characters of an event type (strings are atomic values for TLC).
Chars(s) ==
  CASE s = "view" -> <<"v", "i", "e", "w">>
    [] s = "cart" -> <<"c", "a", "r", "t">>
    [] s = "purchase" -> <<"p", "u", "r", "c", "h", "a", "s", "e">>
    [] s = "remove_from_cart" ->
         <<"r", "e", "m", "o", "v", "e", "_", "f", "r", "o", "m", "_",
           "c", "a", "r", "t">>
    [] OTHER -> <<>>

PipelineName == "RetailPipeline"
TimeoutKey == "session_timeout_seconds"

ConfigWithout == [pipeline_name |-> PipelineName]
ConfigWith(t) == [pipeline_name |-> PipelineName, session_timeout_seconds |-> t]

\* --------------------------------------------- _load_and_clean_data (38-60)
\* spark.read.csv(...).limit(1000000): the first RowLimit rows of the file.
LimitRows(file) ==
  LET keptPad == Min2(file.pad, RowLimit)
      keptRows == Min2(Len(file.rows), RowLimit - keptPad)
  IN [pad |-> keptPad, rows |-> SubSeq(file.rows, 1, keptRows)]

\* withColumn("event_timestamp", to_timestamp(...)) ... drop("event_time")
WithEventTimestamp(r) ==
  [user_id |-> r.user_id, event_type |-> r.event_type,
   event_timestamp |-> ToTimestamp(r.event_time)]

\* Mutant of NaDropKeeps: only the user_id is required.
NaDropKeepsUserOnly(r) == r.user_id # Null

\* na.drop(subset=["user_id", "event_timestamp"]) keeps a row iff both are
\* non-null.
NaDropKeeps(r) == r.user_id # Null /\ r.event_timestamp # Null

\* The cleaned DataFrame; the pad rows have no user_id and are all dropped.
LoadAndClean(file) ==
  LET lim == LimitRows(file)
      parsed == [i \in 1..Len(lim.rows) |-> WithEventTimestamp(lim.rows[i])]
  IN SelectSeq(parsed, NaDropKeeps)

\* ----------------------------------------------- _sessionize_events (62-79)
\* Window.partitionBy("user_id").orderBy("event_timestamp"): the arrangements
\* of the rows the engine may produce.  Rows of one user are contiguous and
\* ascending in event_timestamp; rows with equal timestamps come in any order.
WindowLeq(a, b) ==
  \/ a.user_id < b.user_id
  \/ a.user_id = b.user_id /\ a.event_timestamp <= b.event_timestamp

Orders(df) ==
  {p \in Permutations(1..Len(df)) :
     \A i, j \in 1..Len(df) : i < j => WindowLeq(df[p[i]], df[p[j]])}

\* lag("event_timestamp", 1).over(user_window) of the row at position k of
\* the arrangement p: the previous row of the same partition, else NULL.
PreviousTimestamp(df, p, k) ==
  IF k > 1 /\ df[p[k - 1]].user_id = df[p[k]].user_id
  THEN df[p[k - 1]].event_timestamp
  ELSE Null

\* when((time_diff > session_timeout) | time_diff.isNull(), 1).otherwise(0),
\* time_diff = unix_timestamp(cur) - unix_timestamp(prev), NULL for NULL prev.
NewSessionFlag(prev, cur, session_timeout) ==
  IF prev = Null THEN 1
  ELSE IF cur - prev > session_timeout THEN 1 ELSE 0

\* Mutant of SessionGroup: the running sum numbered from zero.
SessionGroupZeroBased(df, p, flag, k) ==
  LET cur == df[p[k]]
      frame == {j \in 1..Len(df) :
                  /\ df[p[j]].user_id = cur.user_id
                  /\ df[p[j]].event_timestamp <= cur.event_timestamp}
  IN SumOver(flag, frame) - 1

\* Mutant of SessionGroup: a ROWS frame, which stops at the current row and
\* leaves out the peers that the arrangement puts after it.
SessionGroupRowsFrame(df, p, flag, k) ==
  LET cur == df[p[k]]
      frame == {j \in 1..k : df[p[j]].user_id = cur.user_id}
  IN SumOver(flag, frame)

\* sum("new_session_flag").over(user_window): with an ORDER BY and no frame
\* the frame is RANGE BETWEEN UNBOUNDED PRECEDING AND CURRENT ROW, which takes
\* every row of the partition whose event_timestamp is <= the current row's,
\* the current row's peers included.
SessionGroup(df, p, flag, k) ==
  LET cur == df[p[k]]
      frame == {j \in 1..Len(df) :
                  /\ df[p[j]].user_id = cur.user_id
                  /\ df[p[j]].event_timestamp <= cur.event_timestamp}
  IN SumOver(flag, frame)

\* The sessionized DataFrame computed under arrangement p, listed in the row
\* order of df (row i of the result is row i of df with its session_id).
Sessionize(df, p, session_timeout) ==
  LET n == Len(df)
      flag == [k \in 1..n |->
                 NewSessionFlag(PreviousTimestamp(df, p, k),
                                df[p[k]].event_timestamp, session_timeout)]
      pos(i) == CHOOSE k \in 1..n : p[k] = i
  IN [i \in 1..n |->
        [user_id |-> df[i].user_id,
         event_type |-> df[i].event_type,
         event_timestamp |-> df[i].event_timestamp,
         session_id |-> <<df[i].user_id, SessionGroup(df, p, flag, pos(i))>>]]

\* ----------------------------------- _aggregate_to_session_features (81-107)
\* Column.contains(other) is a string match: a is contained in b when a is a
\* contiguous run of b's characters.
StrContains(b, a) ==
  \E i \in 0..(Len(b) - Len(a)) : SubSeq(b, i + 1, i + Len(a)) = a

\* col("unique_event_types").contains(lit): the string match applied to the
\* rendering "[e1, e2, ...]" of the array.  No literal of the chain has a
\* bracket, comma or blank, so the rendering contains it iff an element does.
ArrayColumnContains(types, literal) ==
  \E e \in types : StrContains(Chars(e), Chars(literal))

\* when(purchase).when(cart).when(view).otherwise("other")
FunnelStage(types) ==
  IF ArrayColumnContains(types, "purchase") THEN "completed_purchase"
  ELSE IF ArrayColumnContains(types, "cart") THEN "added_to_cart"
  ELSE IF ArrayColumnContains(types, "view") THEN "view_only"
  ELSE "other"

\* collect_set("event_type"): the distinct non-null values.
CollectSet(rows) == {r.event_type : r \in rows} \ {NullStr}

\* One output row of groupBy("user_id", "session_id").agg(...) with the
\* derived columns; idx is the group's set of row numbers (count("*")).
SessionFeatureRow(dfs, idx) ==
  LET first == dfs[CHOOSE i \in idx : TRUE]
      stamps == {dfs[i].event_timestamp : i \in idx}
      types == CollectSet({dfs[i] : i \in idx})
  IN [user_id |-> first.user_id,
      session_id |-> first.session_id,
      session_start_time |-> SetMin(stamps),
      session_end_time |-> SetMax(stamps),
      total_events |-> Cardinality(idx),
      unique_event_types |-> types,
      session_duration_seconds |-> SetMax(stamps) - SetMin(stamps),
      funnel_stage |-> FunnelStage(types)]

AggregateToSessionFeatures(dfs) ==
  LET keys == {<<dfs[i].user_id, dfs[i].session_id>> : i \in 1..Len(dfs)}
      group(key) == {i \in 1..Len(dfs) :
                       <<dfs[i].user_id, dfs[i].session_id>> = key}
  IN {SessionFeatureRow(dfs, group(key)) : key \in keys}

\* ------------------------------------- _aggregate_to_user_features (109-130)
NullAvg == [sum |-> 0, cnt |-> 0]

\* Mutant of PreviousSessionStart: the end of the preceding session.
PreviousSessionEnd(sf, r) ==
  LET earlier == {q.session_end_time : q \in
                    {q \in sf : /\ q.user_id = r.user_id
                                /\ q.session_start_time < r.session_start_time}}
  IN IF earlier = {} THEN Null ELSE SetMax(earlier)

\* lag("session_start_time", 1) over partitionBy(user_id).orderBy(start): the
\* start of the user's session that precedes row r in that order, else NULL.
\* (Two sessions of one user never start at the same instant, see
\* DistinctSessionStarts, so the order is unique.)
PreviousSessionStart(sf, r) ==
  LET earlier == {q.session_start_time : q \in
                    {q \in sf : /\ q.user_id = r.user_id
                                /\ q.session_start_time < r.session_start_time}}
  IN IF earlier = {} THEN Null ELSE SetMax(earlier)

\* Mutant of Avg: a NULL term counts as a zero.
AvgNullAsZero(terms, rows) ==
  LET nonNull == {r \in rows : terms[r] # Null}
  IN [sum |-> SumOver(terms, nonNull), cnt |-> Cardinality(rows)]

\* avg(expr): NULL terms are skipped in the numerator and the denominator;
\* NULL when every term is NULL.  terms maps each row to its value or Null.
Avg(terms, rows) ==
  LET nonNull == {r \in rows : terms[r] # Null}
  IN IF nonNull = {} THEN NullAvg
     ELSE [sum |-> SumOver(terms, nonNull), cnt |-> Cardinality(nonNull)]

\* col / 3600 (NULL stays NULL).
DivideBy(a, d) == IF a = NullAvg THEN NullAvg ELSE [sum |-> a.sum, cnt |-> a.cnt * d]

\* unix_timestamp(session_start_time) - unix_timestamp(previous_session_start)
StartGap(sf, r) ==
  IF PreviousSessionStart(sf, r) = Null THEN Null
  ELSE r.session_start_time - PreviousSessionStart(sf, r)

\* Mutant of TotalEventsLifetime: the rows are counted, not their events.
TotalEventsCounted(rows) == Cardinality(rows)

\* sum("total_events")
TotalEventsLifetime(rows) ==
  SumOver([r \in rows |-> r.total_events], rows)

\* sum(when(funnel_stage == "completed_purchase", 1).otherwise(0))
TotalPurchaseSessions(rows) ==
  SumOver([r \in rows |-> IF r.funnel_stage = "completed_purchase" THEN 1 ELSE 0],
          rows)

UserSummaryRow(sf, u) ==
  LET rows == {r \in sf : r.user_id = u}
      avgGap == Avg([r \in rows |-> StartGap(sf, r)], rows)
  IN [user_id |-> u,
      total_sessions |-> Cardinality(rows),
      total_events_lifetime |-> TotalEventsLifetime(rows),
      avg_session_duration_seconds |->
        Avg([r \in rows |-> r.session_duration_seconds], rows),
      total_purchase_sessions |-> TotalPurchaseSessions(rows),
      avg_time_between_sessions_sec |-> avgGap,
      avg_time_between_sessions_hours |-> DivideBy(avgGap, SecondsPerHour)]

AggregateToUserFeatures(sf) ==
  {UserSummaryRow(sf, u) : u \in {r.user_id : r \in sf}}

\* ------------------------------------------------------------------- run()
Started == {"start"}
AfterClean == {"cleaned", "sessionized", "session_features", "session_written",
               "user_features", "done", "fatal_config", "fatal_analysis"}
AfterSessionize == {"sessionized", "session_features", "session_written",
                    "user_features", "done", "fatal_analysis"}
AfterSessionFeatures == {"session_features", "session_written",
                         "user_features", "done"}
AfterUserFeatures == {"user_features", "done"}

EmptyFile == [pad |-> 0, rows |-> <<>>]

RawRows(users, times, types) ==
  [event_time : times, event_type : types, user_id : users]

\* The state after __init__: a configuration was loaded, nothing was read.
InitWith(users, times, types, pads, timeouts) ==
  /\ pc = "start"
  /\ config \in {ConfigWithout} \cup {ConfigWith(t) : t \in timeouts}
  /\ \/ /\ source_exists = TRUE
        /\ source \in [pad : pads,
                       rows : SeqsUpTo(RawRows(users, times, types), MaxRaw)]
     \/ /\ source_exists = FALSE
        /\ source = EmptyFile
  /\ df_cleaned = <<>>
  /\ df_sessionized = <<>>
  /\ session_features = {}
  /\ user_summary = {}
  /\ written = {}

Timeouts == {-1, 0, 30, 1800}

Init == InitWith({1, 2}, EventTimes, {"view"}, {0}, Timeouts)

InitFunnel ==
  InitWith({1}, {"2019-10-01 00:00:00 UTC", "2019-10-01 02:00:00 UTC"},
           EventTypes, {0}, {1800})

InitUser ==
  InitWith({1, 2}, {"2019-10-01 00:00:00 UTC", "2019-10-01 02:00:00 UTC"},
           {"view", "purchase"}, {0}, {-1, 1800})

InitOrder ==
  InitWith({1, 2}, {"2019-10-01 00:00:00 UTC", "2019-10-01 00:00:30 UTC"},
           {"view"}, {0}, {-1, 0, 30})

InitClean ==
  InitWith({1, Null},
           {"2019-10-01 00:00:00 UTC", "2019-10-01 00:00:30 UTC",
            "2019-10-01T00:00:00Z"},
           {"view"}, {0, RowLimit - 1, RowLimit}, {1800})

\* _load_and_clean_data, lines 40-60.
LoadAndCleanData ==
  /\ pc = "start"
  /\ source_exists
  /\ df_cleaned' = LoadAndClean(source)
  /\ pc' = "cleaned"
  /\ UNCHANGED <<config, source_exists, source, df_sessionized,
                 session_features, user_summary, written>>

\* _load_and_clean_data, lines 42-44: sys.exit(1).
SourceMissing ==
  /\ pc = "start"
  /\ ~source_exists
  /\ pc' = "exit_no_source"
  /\ UNCHANGED <<config, source_exists, source, df_cleaned, df_sessionized,
                 session_features, user_summary, written>>

\* _sessionize_events, then cache() and count() (lines 137-141), which
\* materialise the result under one arrangement of the window.
SessionizeEvents ==
  /\ pc = "cleaned"
  /\ TimeoutKey \in DOMAIN config
  /\ \E p \in Orders(df_cleaned) :
       df_sessionized' = Sessionize(df_cleaned, p, config[TimeoutKey])
  /\ pc' = "sessionized"
  /\ UNCHANGED <<config, source_exists, source, df_cleaned,
                 session_features, user_summary, written>>

\* line 67: self.config["session_timeout_seconds"] raises KeyError.
ConfigKeyError ==
  /\ pc = "cleaned"
  /\ TimeoutKey \notin DOMAIN config
  /\ pc' = "fatal_config"
  /\ UNCHANGED <<config, source_exists, source, df_cleaned, df_sessionized,
                 session_features, user_summary, written>>

\* _aggregate_to_session_features, line 144.
AggregateSessionFeatures ==
  /\ pc = "sessionized"
  /\ session_features' = AggregateToSessionFeatures(df_sessionized)
  /\ pc' = "session_features"
  /\ UNCHANGED <<config, source_exists, source, df_cleaned, df_sessionized,
                 user_summary, written>>

\* lines 99-104: Column.contains takes string operands.  The engine either
\* applies the string match to the array column (AggregateSessionFeatures)
\* or its analyzer rejects the array operand when withColumn resolves the
\* expression, and run() ends with that error before any write.
ContainsRejected ==
  /\ pc = "sessionized"
  /\ pc' = "fatal_analysis"
  /\ UNCHANGED <<config, source_exists, source, df_cleaned, df_sessionized,
                 session_features, user_summary, written>>

\* lines 145-147.
WriteSessionFeatures ==
  /\ pc = "session_features"
  /\ written' = written \cup {"session_features"}
  /\ pc' = "session_written"
  /\ UNCHANGED <<config, source_exists, source, df_cleaned, df_sessionized,
                 session_features, user_summary>>

\* _aggregate_to_user_features, line 150.
AggregateUserFeatures ==
  /\ pc = "session_written"
  /\ user_summary' = AggregateToUserFeatures(session_features)
  /\ pc' = "user_features"
  /\ UNCHANGED <<config, source_exists, source, df_cleaned, df_sessionized,
                 session_features, written>>

\* lines 151-162.
WriteUserSummary ==
  /\ pc = "user_features"
  /\ written' = written \cup {"user_summary"}
  /\ pc' = "done"
  /\ UNCHANGED <<config, source_exists, source, df_cleaned, df_sessionized,
                 session_features, user_summary>>

Next ==
  \/ LoadAndCleanData
  \/ SourceMissing
  \/ SessionizeEvents
  \/ ConfigKeyError
  \/ AggregateSessionFeatures
  \/ ContainsRejected
  \/ WriteSessionFeatures
  \/ AggregateUserFeatures
  \/ WriteUserSummary

Spec == Init /\ [][Next]_vars
SpecFunnel == InitFunnel /\ [][Next]_vars
SpecUser == InitUser /\ [][Next]_vars
SpecClean == InitClean /\ [][Next]_vars
SpecOrder == InitOrder /\ [][Next]_vars

TypeOK ==
  /\ pc \in Started \cup AfterClean \cup {"exit_no_source"}
  /\ written \subseteq {"session_features", "user_summary"}
  /\ Len(df_sessionized) \in {0, Len(df_cleaned)}

\* ------------------------------------------------ vocabulary of the claims
Timeout == config[TimeoutKey]
Rows == 1..Len(df_sessionized)
Ts(i) == df_sessionized[i].event_timestamp
Uid(i) == df_sessionized[i].user_id
Sid(i) == df_sessionized[i].session_id
Seqno(i) == df_sessionized[i].session_id[2]
SessionizedUsers == {Uid(i) : i \in Rows}
RowsOf(u) == {i \in Rows : Uid(i) = u}

\* i and j are neighbours, i first, in some ascending-timestamp order of
\* their user's events: no event of the user lies strictly between them.
Adjacent(i, j) ==
  /\ i # j
  /\ Uid(i) = Uid(j)
  /\ Ts(i) <= Ts(j)
  /\ ~\E k \in Rows : Uid(k) = Uid(i) /\ Ts(i) < Ts(k) /\ Ts(k) < Ts(j)

\* The user's events at the user's earliest timestamp.
EarliestRows(u) == {i \in RowsOf(u) : \A j \in RowsOf(u) : Ts(i) <= Ts(j)}

\* ------------------------------------------------------------------- C1
\* C1: for every user and every pair of events adjacent in the user's
\* ascending-timestamp order, the two events have the same session_id iff
\* their time difference is <= session_timeout_seconds.
GapInvariant ==
  pc \in AfterSessionize =>
    \A i, j \in Rows :
      Adjacent(i, j) => ((Sid(i) = Sid(j)) <=> (Ts(j) - Ts(i) <= Timeout))

\* The gap invariant on the configurations the Sessionizer is specified for.
GapInvariantValidTimeout ==
  (pc \in AfterSessionize /\ Timeout >= 0) =>
    \A i, j \in Rows :
      Adjacent(i, j) => ((Sid(i) = Sid(j)) <=> (Ts(j) - Ts(i) <= Timeout))

\* ------------------------------------------------------------------- C2
\* C2 as stated: the session of a user's chronologically first event has
\* sequence number 0.
FirstSessionIsZero ==
  pc \in AfterSessionize =>
    \A u \in SessionizedUsers : \A i \in EarliestRows(u) : Seqno(i) = 0

\* C2 amended: the session of a user's chronologically first event has
\* sequence number 1 (the running sum counts the first event's own flag);
\* with a negative timeout it is the number of the user's events at the
\* earliest timestamp, each of which is flagged.
FirstSessionNumber ==
  pc \in AfterSessionize =>
    \A u \in SessionizedUsers : \A i \in EarliestRows(u) :
      Seqno(i) = IF Timeout < 0 THEN Cardinality(EarliestRows(u)) ELSE 1

FirstSessionWitness ==
  /\ pc = "sessionized"
  /\ Timeout >= 0
  /\ \E i, j \in Rows : Uid(i) = Uid(j) /\ Seqno(i) = 1 /\ Seqno(j) = 2

\* ------------------------------------------------------------------- C3
\* C3: with a missing, zero or negative session_timeout_seconds run() never
\* reaches sessionization, assigns no session_id and writes no table.
InvalidTimeoutRejected ==
  (TimeoutKey \notin DOMAIN config \/ config[TimeoutKey] <= 0) =>
    /\ pc \notin AfterSessionize
    /\ df_sessionized = <<>>
    /\ written = {}

\* ------------------------------------------------------------------- C4
\* The example: user 1 has exactly three cleaned events, at t0, t0+30 and
\* t0+7200, and the timeout is 1800.
ExampleInput ==
  /\ TimeoutKey \in DOMAIN config
  /\ config[TimeoutKey] = 1800
  /\ Cardinality({i \in 1..Len(df_cleaned) : df_cleaned[i].user_id = 1}) = 3
  /\ {df_cleaned[i].event_timestamp :
        i \in {i \in 1..Len(df_cleaned) : df_cleaned[i].user_id = 1}}
       = {T0, T0 + 30, T0 + 7200}

ExampleOutput(gap) ==
  LET ss == {r \in session_features : r.user_id = 1}
      us == {r \in user_summary : r.user_id = 1}
  IN /\ Cardinality(ss) = 2
     /\ \E a, b \in ss :
          /\ a.session_start_time < b.session_start_time
          /\ a.total_events = 2 /\ a.session_duration_seconds = 30
          /\ b.total_events = 1 /\ b.session_duration_seconds = 0
     /\ Cardinality(us) = 1
     /\ \A r \in us :
          /\ r.total_sessions = 2
          /\ r.total_events_lifetime = 3
          /\ r.avg_time_between_sessions_sec = [sum |-> gap, cnt |-> 1]
          /\ r.avg_time_between_sessions_hours =
               [sum |-> gap, cnt |-> SecondsPerHour]

SessionsOf(u) == {r \in session_features : r.user_id = u}
StartsOf(u) == {r.session_start_time : r \in SessionsOf(u)}

\* C5: for a user with n >= 2 sessions the averaged quantity is the mean of
\* exactly the n-1 differences between consecutive session starts (their sum
\* is last start - first start), divided by 3600 for the hours; for a user
\* with one session both values are null.
InterSessionAverage ==
  pc \in AfterUserFeatures =>
    \A r \in user_summary :
      LET n == Cardinality(SessionsOf(r.user_id))
          span == SetMax(StartsOf(r.user_id)) - SetMin(StartsOf(r.user_id))
      IN /\ n = 1 =>
              /\ r.avg_time_between_sessions_sec = NullAvg
              /\ r.avg_time_between_sessions_hours = NullAvg
         /\ n >= 2 =>
              /\ r.avg_time_between_sessions_sec = [sum |-> span, cnt |-> n - 1]
              /\ r.avg_time_between_sessions_hours =
                   [sum |-> span, cnt |-> (n - 1) * 3600]

InterSessionWitness ==
  /\ pc = "done"
  /\ \E r, q \in user_summary :
       /\ r.total_sessions = 3
       /\ r.avg_time_between_sessions_sec = [sum |-> 7200, cnt |-> 2]
       /\ q.total_sessions = 1
       /\ q.avg_time_between_sessions_hours = NullAvg

\* Two sessions of one user never start at the same instant, so the window
\* of _aggregate_to_user_features has one arrangement only.
DistinctSessionStarts ==
  \A r, q \in session_features :
    (r.user_id = q.user_id /\ r.session_start_time = q.session_start_time)
      => r = q

\* ------------------------------------------------------------------- C6
\* C6: walking a user's events in ascending timestamp order the sequence
\* number never decreases and grows by exactly one at each session boundary;
\* sessions are contiguous: no event whose timestamp lies between two events
\* of a session belongs to another session.
SessionNumbering ==
  pc \in AfterSessionize =>
    /\ \A i, j \in Rows :
         Adjacent(i, j) =>
           /\ Seqno(j) >= Seqno(i)
           /\ Sid(i) # Sid(j) => Seqno(j) = Seqno(i) + 1
    /\ \A i, j, k \in Rows :
         (Sid(i) = Sid(j) /\ Uid(k) = Uid(i) /\ Ts(i) <= Ts(k) /\ Ts(k) <= Ts(j))
           => Sid(k) = Sid(i)

\* The numbering on the configurations the Sessionizer is specified for.
SessionNumberingValidTimeout ==
  (pc \in AfterSessionize /\ Timeout >= 0) =>
    /\ \A i, j \in Rows :
         Adjacent(i, j) =>
           /\ Seqno(j) >= Seqno(i)
           /\ Sid(i) # Sid(j) => Seqno(j) = Seqno(i) + 1
    /\ \A i, j, k \in Rows :
         (Sid(i) = Sid(j) /\ Uid(k) = Uid(i) /\ Ts(i) <= Ts(k) /\ Ts(k) <= Ts(j))
           => Sid(k) = Sid(i)

\* ------------------------------------------------------------------- C7
Rearranged(df, f) == [k \in 1..Len(df) |-> df[f[k]]]

\* C7: events of one user with identical timestamps are in the same session,
\* and the session of every event is the same under every arrangement of
\* same-timestamp events and under every arrival order of the cleaned input
\* (f ranges over the arrival orders, the identity included, and q over the
\* arrangements of the window).
OrderIndependence ==
  pc = "sessionized" =>
    /\ \A i, j \in Rows : (Uid(i) = Uid(j) /\ Ts(i) = Ts(j)) => Sid(i) = Sid(j)
    /\ \A f \in Permutations(1..Len(df_cleaned)) :
         \A q \in Orders(Rearranged(df_cleaned, f)) :
           \A k \in 1..Len(df_cleaned) :
             Sessionize(Rearranged(df_cleaned, f), q, Timeout)[k]
               = df_sessionized[f[k]]

OrderIndependenceWitness ==
  /\ pc = "sessionized"
  /\ Cardinality(Orders(df_cleaned)) >= 2
  /\ \E i, j \in Rows : i # j /\ Uid(i) = Uid(j) /\ Ts(i) = Ts(j)
  /\ \E i, j \in Rows : Uid(i) = Uid(j) /\ Sid(i) # Sid(j)

\* ------------------------------------------------------------------- C8
FunnelByMembership(types) ==
  IF "purchase" \in types THEN "completed_purchase"
  ELSE IF "cart" \in types THEN "added_to_cart"
  ELSE IF "view" \in types THEN "view_only"
  ELSE "other"

\* C8: funnel_stage is decided by membership of the elements purchase, cart,
\* view in the session's set of event types, first match winning, else other.
FunnelBySetMembership ==
  pc \in AfterSessionFeatures =>
    \A r \in session_features :
      r.funnel_stage = FunnelByMembership(r.unique_event_types)

\* ------------------------------------------------------------------- C9
\* C9: for every user of the summary, total_events_lifetime is the sum of
\* total_events over the user's session rows (the number of the user's
\* events), total_sessions the number of the user's distinct session_ids,
\* total_events_lifetime >= total_sessions >= 1 and
\* 0 <= total_purchase_sessions <= total_sessions.
AggregationConsistency ==
  pc \in AfterUserFeatures =>
    /\ {r.user_id : r \in user_summary} = SessionizedUsers
    /\ \A r \in user_summary :
         /\ r.total_events_lifetime =
              SumOver([q \in SessionsOf(r.user_id) |-> q.total_events],
                      SessionsOf(r.user_id))
         /\ r.total_events_lifetime = Cardinality(RowsOf(r.user_id))
         /\ r.total_sessions = Cardinality({Sid(i) : i \in RowsOf(r.user_id)})
         /\ r.total_events_lifetime >= r.total_sessions
         /\ r.total_sessions >= 1
         /\ 0 <= r.total_purchase_sessions
         /\ r.total_purchase_sessions <= r.total_sessions

AggregationWitness ==
  /\ pc = "done"
  /\ \E r \in user_summary :
       /\ r.total_sessions = 2
       /\ r.total_events_lifetime = 3
       /\ r.total_purchase_sessions = 1

\* ------------------------------------------------------------------ C10
ParseableTimes == {"2019-10-01 00:00:00 UTC", "2019-10-01 00:00:30 UTC",
                   "2019-10-01 02:00:00 UTC"}

ValidRaw(r) == r.user_id # Null /\ r.event_time \in ParseableTimes

\* The raw rows with the given row numbers of source.rows that are valid, as
\* cleaned events in file order.
ValidEvents(raw) ==
  LET valid == SelectSeq(raw, ValidRaw)
  IN [i \in 1..Len(valid) |-> WithEventTimestamp(valid[i])]

\* C10 as stated: whatever the size of the raw input, the cleaned output is
\* exactly the raw records with a user_id and a parseable timestamp.
CleanerOnlyFilters ==
  pc \in AfterClean => df_cleaned = ValidEvents(source.rows)

\* The explicit rows that are among the first RowLimit rows of the file.
WithinLimit(file) ==
  SubSeq(file.rows, 1,
         IF file.pad >= RowLimit THEN 0
         ELSE Min2(Len(file.rows), RowLimit - file.pad))

\* C10 amended: the cleaned output is exactly the records among the first
\* 1000000 rows of the raw input that have a user_id and a parseable
\* timestamp, and each of them is counted in exactly one session.
CleanerFiltersWithinLimit ==
  /\ pc \in AfterClean => df_cleaned = ValidEvents(WithinLimit(source))
  /\ pc \in AfterSessionFeatures =>
       SumOver([r \in session_features |-> r.total_events], session_features)
         = Len(ValidEvents(WithinLimit(source)))

CleanerWitness ==
  /\ pc = "done"
  /\ source.pad + Len(source.rows) > RowLimit
  /\ Len(df_cleaned) = 1
  /\ Len(ValidEvents(source.rows)) >= 2
  /\ Len(source.rows) > Len(ValidEvents(source.rows))

====
